---------------------------- MODULE Spec2Model ----------------------------
(***************************************************************************)
(* A model of at::SparseCsrTensorImpl (aten/src/ATen/SparseCsrTensorImpl   *)
(* .cpp): one instance of the sparse compressed tensor, its three member   *)
(* tensors, its layout, its declared value type and its sizes, under the   *)
(* constructors and the public mutators of the class.                      *)
(*                                                                         *)
(* A member tensor is a record [dev, dtype, shape, st, storage].  For      *)
(* crow_indices_ st holds the Prod(shape) elements, row-major.  The class  *)
(* never reads or writes an element of col_indices_ or values_, so their   *)
(* st stays <<>>.  storage says whose allocation the tensor is: "own" one  *)
(* that an operation of the instance made, "arg" a tensor of the caller,   *)
(* "src" a member tensor of the source of resize_as_sparse_csr_tensor_.    *)
(* Two handles of one allocation are one tensor: what is done in place to  *)
(* one is seen through the other.                                          *)
(*                                                                         *)
(* A cell nobody has written since it was allocated is uninitialized: it   *)
(* holds Uninit, which stands for every value the memory may hold, so a    *)
(* property that needs a value there does not hold of it.  A resize that   *)
(* shrinks forgets the cells it cuts off: when a later resize grows back   *)
(* into them they are Uninit again (the storage would still hold the old   *)
(* values; Uninit covers them).                                            *)
(* The cached numel_ of the base class is not modelled.                    *)
(***************************************************************************)
EXTENDS Integers, Sequences, FiniteSets, TLC

(***************************************************************************)
(* Bounds of the model.                                                    *)
(***************************************************************************)
\* The two structural dimensions of a size argument range over 0..MaxDim.
MaxDim == 2
\* The nnz argument of resize_ ranges over 0..MaxNnz.
MaxNnz == 2

Devices == {"cpu", "cuda"}
ScalarTypes == {"Float", "Double"}
Layouts == {"SparseCsr", "SparseCsc", "SparseBsr", "SparseBsc"}
\* Dispatch key sets handed to the constructors: the two sparse-compressed
\* backends and one that is not a sparse-compressed key.
KeySets == {"SparseCsrCPU", "SparseCsrCUDA", "CPU"}
\* The content of an uninitialized cell (no count is negative).
Uninit == -1

(***************************************************************************)
(* Shapes and dense tensors (the parts of ArrayRef and at::Tensor the      *)
(* class uses).                                                            *)
(***************************************************************************)
Min(a, b) == IF a <= b THEN a ELSE b

RECURSIVE Prod(_)
Prod(s) == IF s = <<>> THEN 1 ELSE Head(s) * Prod(Tail(s))

\* ArrayRef::slice(N, M): M elements from index N (0-based); it throws unless
\* N + M <= size().
SliceOk(s, N, M) == N >= 0 /\ M >= 0 /\ N + M <= Len(s)

Slice(s, N, M) == SubSeq(s, N + 1, N + M)

\* Tensor::size(-1)
LastDim(t) == t.shape[Len(t.shape)]

\* k uninitialized cells.
UninitCells(k) == [i \in 1..k |-> Uninit]

\* Tensor::resize_(shape) of a contiguous tensor: the elements are the first
\* Prod(shape) cells of the storage, in row-major order; cells past the old
\* elements are uninitialized.
TensorResize(t, shape) ==
    LET n == Prod(shape)
    IN  [t EXCEPT !.shape = shape,
                  !.st = IF n <= Len(t.st) THEN SubSeq(t.st, 1, n)
                         ELSE t.st \o UninitCells(n - Len(t.st))]

\* Tensor::resize_ of a tensor whose contents are not modelled.
TensorResizeMeta(t, shape) == [t EXCEPT !.shape = shape]

\* t.narrow(-1, start, length).fill_(v): in every batch, the cells start ..
\* start+length-1 of the last axis become v.
NarrowFill(t, start, length, v) ==
    LET L == LastDim(t)
    IN  [t EXCEPT !.st = [i \in 1..Len(t.st) |->
            IF ((i - 1) % L) >= start /\ ((i - 1) % L) < start + length
            THEN v ELSE t.st[i]]]

\* Tensor::zero_()
TensorZero(t) == [t EXCEPT !.st = [i \in 1..Len(t.st) |-> 0]]

\* at::empty(shape, options): a fresh tensor, its cells uninitialized.
TensorEmpty(shape, dev, dtype) ==
    [dev |-> dev, dtype |-> dtype, shape |-> shape,
     st |-> UninitCells(Prod(shape)), storage |-> "own"]

\* The same for a tensor whose contents are not modelled.
TensorEmptyMeta(shape, dev, dtype) ==
    [dev |-> dev, dtype |-> dtype, shape |-> shape, st |-> <<>>,
     storage |-> "own"]

\* Whether two tensors are handles of one allocation.
Shares(t, u) == t.storage = u.storage

(***************************************************************************)
(* The instance.                                                           *)
(***************************************************************************)
VARIABLES
    crow_indices_,                 \* compressed indices (crow / ccol)
    col_indices_,                  \* plain indices (col / row)
    values_,                       \* values
    layout_,                       \* one of Layouts
    data_type_,                    \* the declared value type (TensorImpl::dtype())
    sizes_,                        \* sizes_and_strides_: the logical shape
    has_symbolic_sizes_strides_,   \* TensorImpl's flag
    call,                          \* the last call on the instance and how it ended
    kept                           \* the source instances the caller still holds

vars == <<crow_indices_, col_indices_, values_, layout_, data_type_, sizes_,
          has_symbolic_sizes_strides_, call, kept>>

\* The instance as one value.
Self ==
    [crow |-> crow_indices_, col |-> col_indices_, values |-> values_,
     layout |-> layout_, dtype |-> data_type_, sizes |-> sizes_,
     symbolic |-> has_symbolic_sizes_strides_]

\* The instance becomes s.
Install(s) ==
    /\ crow_indices_' = s.crow
    /\ col_indices_' = s.col
    /\ values_' = s.values
    /\ layout_' = s.layout
    /\ data_type_' = s.dtype
    /\ sizes_' = s.sizes
    /\ has_symbolic_sizes_strides_' = s.symbolic

\* What `call` records: the operation, its outcome, and of the arguments what
\* the properties speak of: nnz of resize_; whether resize_and_clear_ got a
\* sparse_dim below 2 or a size shorter than sparse_dim; whether the three
\* tensor arguments are on more than one device; the element type of the
\* values argument; and of a resize_ or resize_and_clear_ that went through,
\* the size argument and the number of batch dimensions it was taken to have.
Call(op, err, nnz, badArgs, devsDiffer, vdtype) ==
    [op |-> op, err |-> err, nnz |-> nnz, badArgs |-> badArgs,
     devsDiffer |-> devsDiffer, vdtype |-> vdtype, size |-> <<>>, batch |-> 0]

WithSize(c, size, batch) ==
    IF c.err = "ok" THEN [c EXCEPT !.size = size, !.batch = batch] ELSE c

(***************************************************************************)
(* The layout families (AT_DISPATCH_ROW_SPARSE_COMPRESSED_LAYOUTS and      *)
(* AT_DISPATCH_PLAIN_SPARSE_COMPRESSED_LAYOUTS, as resize_and_clear_ uses  *)
(* them).                                                                  *)
(***************************************************************************)
\* Row-compressed layouts take the first lambda, column-compressed the second.
IsRowCompressed(layout) == layout \in {"SparseCsr", "SparseBsr"}

\* Plain layouts take the first lambda, block layouts the second.
IsBlockLayout(layout) == layout \in {"SparseBsr", "SparseBsc"}

\* SparseCsrTensorImpl::batch_dim(): the batch dimensions of the instance.
batch_dim(s) == Len(s.crow.shape) - 1

(***************************************************************************)
(* Construction.                                                           *)
(***************************************************************************)
\* The device a dispatch key set stands for; "none" is the TORCH_CHECK(false).
SparseCsrTensorSetToDeviceType(key_set) ==
    CASE key_set = "SparseCsrCPU" -> "cpu"
      [] key_set = "SparseCsrCUDA" -> "cuda"
      [] OTHER -> "none"

\* The sizes a TensorImpl has before anyone sets them.
DefaultSizes == <<0, 0>>

\* A placeholder of one element.
OneElementShape == <<1>>

\* The shape of each of the three placeholders of the empty constructor.
EmptyShape == <<0>>

\* The six-argument constructor: it takes the tensors as they are and then
\* compares the devices; a failed check throws, and no instance exists.
Construct(data_type, crow, col, values, layout) ==
    LET s == [crow |-> crow, col |-> col, values |-> values, layout |-> layout,
              dtype |-> data_type, sizes |-> DefaultSizes, symbolic |-> FALSE]
    IN  IF values.dev # crow.dev \/ values.dev # col.dev
        THEN [ok |-> FALSE, s |-> s, err |-> "DeviceMismatch"]
        ELSE [ok |-> TRUE, s |-> s, err |-> "ok"]

\* The three-argument constructor: three at::empty({0}) placeholders on the
\* key set's device, handed to the six-argument constructor.
ConstructEmpty(key_set, layout, data_type) ==
    LET dev == SparseCsrTensorSetToDeviceType(key_set)
    IN  IF dev = "none"
        THEN [ok |-> FALSE, s |-> <<>>, err |-> "InvalidDeviceTag"]
        ELSE Construct(data_type,
                       TensorEmpty(EmptyShape, dev, "Int"),
                       TensorEmptyMeta(EmptyShape, dev, "Int"),
                       TensorEmptyMeta(EmptyShape, dev, data_type),
                       layout)

(***************************************************************************)
(* resize_(nnz, size)                                                      *)
(***************************************************************************)
\* The shape resize_ gives crow_indices_.
resize_crow_shape(size) ==
    Slice(size, 0, Len(size) - 2) \o <<size[Len(size) - 1] + 1>>

\* The shape of col_indices_ and values_ with nnz itself as their length.
col_indices_values_size_unclamped(nnz, size) ==
    Slice(size, 0, Len(size) - 2) \o <<nnz>>

\* The shape resize_ gives col_indices_ and values_.
col_indices_values_size(nnz, size) ==
    Slice(size, 0, Len(size) - 2)
        \o <<Min(nnz, size[Len(size) - 1] * size[Len(size)])>>

resize_(s, nnz, size) ==
    IF s.symbolic
    THEN [s |-> s, err |-> "UnsupportedOnSymbolicShape"]
    ELSE
    LET rows == size[Len(size) - 1]
        cols == size[Len(size)]
        old_crow_indices_size == LastDim(s.crow)
        resized == TensorResize(s.crow, resize_crow_shape(size))
        crow == IF rows + 1 >= old_crow_indices_size
                THEN NarrowFill(resized, old_crow_indices_size,
                                rows + 1 - old_crow_indices_size, nnz)
                ELSE NarrowFill(resized, rows, 1, Min(nnz, rows * cols))
    IN  [s |-> [s EXCEPT !.crow = crow,
                         !.col = TensorResizeMeta(s.col,
                                     col_indices_values_size(nnz, size)),
                         !.values = TensorResizeMeta(s.values,
                                     col_indices_values_size(nnz, size)),
                         !.sizes = size],
         err |-> "ok"]

(***************************************************************************)
(* resize_and_clear_(sparse_dim, size)                                     *)
(***************************************************************************)
\* The arguments resize_and_clear_ rejects.
BadClearArgs(sparse_dim, size) == sparse_dim < 2 \/ Len(size) < sparse_dim

\* crow_indices_.resize_(shape) without the zero_() after it.
resize_crow_without_zero(t, shape) == TensorResize(t, shape)

\* crow_indices_.resize_(shape); crow_indices_.zero_()
resize_and_zero_crow(t, shape) == TensorZero(TensorResize(t, shape))

\* The number of groups left as it is.
groups_undivided(groups, edge) == groups

\* n_compressed_indices /= blocksize[...]; the quotient is 0 where a division
\* by zero lets the call go on.
groups_by_edge(groups, edge) == IF edge = 0 THEN 0 ELSE groups \div edge

\* resize_and_clear_ past its argument checks.  divzero says what the
\* division by a zero block edge (undefined in C++) does: "trap" ends the
\* call, "zero" lets it go on with a quotient of 0.
clear_to(s, sparse_dim, size, divzero) ==
    LET bd == sparse_dim - 2
        batchsize == Slice(size, 0, bd)
        densesize == Slice(size, bd + 2, Len(size) - bd - 2)
        groups == IF IsRowCompressed(s.layout) THEN size[bd + 1] ELSE size[bd + 2]
        block == IsBlockLayout(s.layout)
        blockOk == SliceOk(s.values.shape, batch_dim(s) + 1, 2)
        blocksize == Slice(s.values.shape, batch_dim(s) + 1, 2)
        edge == blocksize[IF s.layout = "SparseBsr" THEN 1 ELSE 2]
    IN  IF block /\ ~blockOk
        THEN [s |-> s, err |-> "InvalidSlice"]
        ELSE IF block /\ edge = 0 /\ divzero = "trap"
        THEN [s |-> s, err |-> "DivideByZero"]
        ELSE
        LET values_size == batchsize \o <<0>> \o densesize
                           \o (IF block THEN blocksize ELSE <<>>)
            col_indices_size == batchsize \o <<0>>
            n_compressed_indices ==
                IF ~block THEN groups ELSE groups_by_edge(groups, edge)
            crow_indices_size == batchsize \o <<n_compressed_indices + 1>>
        IN  [s |-> [s EXCEPT !.crow = resize_and_zero_crow(s.crow, crow_indices_size),
                             !.col = TensorResizeMeta(s.col, col_indices_size),
                             !.values = TensorResizeMeta(s.values, values_size),
                             !.sizes = size],
             err |-> "ok"]

\* resize_and_clear_ without its two argument checks: the first slice that
\* does not fit the size throws instead.
resize_and_clear_unchecked(s, sparse_dim, size, divzero) ==
    IF s.symbolic
    THEN [s |-> s, err |-> "UnsupportedOnSymbolicShape"]
    ELSE IF BadClearArgs(sparse_dim, size)
    THEN [s |-> s, err |-> "InvalidSlice"]
    ELSE clear_to(s, sparse_dim, size, divzero)

resize_and_clear_(s, sparse_dim, size, divzero) ==
    IF s.symbolic
    THEN [s |-> s, err |-> "UnsupportedOnSymbolicShape"]
    ELSE IF ~(sparse_dim >= 2)
    THEN [s |-> s, err |-> "InvalidArgument"]
    ELSE IF ~(Len(size) >= sparse_dim)
    THEN [s |-> s, err |-> "InvalidArgument"]
    ELSE clear_to(s, sparse_dim, size, divzero)

\* Whether resize_and_clear_(sparse_dim, size) comes to divide by a block
\* edge of zero.
DividesByZero(s, sparse_dim, size) ==
    /\ ~s.symbolic
    /\ ~BadClearArgs(sparse_dim, size)
    /\ IsBlockLayout(s.layout)
    /\ SliceOk(s.values.shape, batch_dim(s) + 1, 2)
    /\ Slice(s.values.shape, batch_dim(s) + 1, 2)
            [IF s.layout = "SparseBsr" THEN 1 ELSE 2] = 0

(***************************************************************************)
(* resize_as_sparse_csr_tensor_(src)                                       *)
(***************************************************************************)
\* at::empty_like(t, t.options(), ...): a fresh tensor with t's shape, element
\* type and device.
EmptyLike(t) == TensorEmpty(t.shape, t.dev, t.dtype)

EmptyLikeMeta(t) == TensorEmptyMeta(t.shape, t.dev, t.dtype)

\* resize_as_sparse_csr_tensor_ taking src's member tensors themselves.
resize_as_by_assignment(s, src) ==
    IF s.symbolic
    THEN [s |-> s, err |-> "UnsupportedOnSymbolicShape"]
    ELSE [s |-> [s EXCEPT !.layout = src.layout,
                          !.crow = src.crow,
                          !.col = src.col,
                          !.values = src.values,
                          !.sizes = src.sizes],
          err |-> "ok"]

resize_as_sparse_csr_tensor_(s, src) ==
    IF s.symbolic
    THEN [s |-> s, err |-> "UnsupportedOnSymbolicShape"]
    ELSE [s |-> [s EXCEPT !.layout = src.layout,
                          !.crow = EmptyLike(src.crow),
                          !.col = EmptyLikeMeta(src.col),
                          !.values = EmptyLikeMeta(src.values),
                          !.sizes = src.sizes],
          err |-> "ok"]

(***************************************************************************)
(* set_member_tensors(crow_indices, col_indices, values, size)             *)
(***************************************************************************)
\* set_member_tensors with the element type compared after the assignments.
set_member_tensors_late_check(s, crow, col, values, size) ==
    IF s.symbolic
    THEN [s |-> s, err |-> "UnsupportedOnSymbolicShape"]
    ELSE
    LET t == [s EXCEPT !.crow = crow, !.col = col, !.values = values,
                       !.sizes = size]
    IN  IF values.dtype # s.dtype
        THEN [s |-> t, err |-> "TypeMismatch"]
        ELSE IF t.values.dev # t.crow.dev \/ t.values.dev # t.col.dev
        THEN [s |-> t, err |-> "DeviceMismatch"]
        ELSE [s |-> t, err |-> "ok"]

set_member_tensors(s, crow, col, values, size) ==
    IF s.symbolic
    THEN [s |-> s, err |-> "UnsupportedOnSymbolicShape"]
    ELSE IF values.dtype # s.dtype
    THEN [s |-> s, err |-> "TypeMismatch"]
    ELSE
    LET t == [s EXCEPT !.crow = crow, !.col = col, !.values = values,
                       !.sizes = size]
    IN  IF t.values.dev # t.crow.dev \/ t.values.dev # t.col.dev
        THEN [s |-> t, err |-> "DeviceMismatch"]
        ELSE [s |-> t, err |-> "ok"]

(***************************************************************************)
(* The overrides that reject: each is a TORCH_CHECK(false, ...), so each   *)
(* throws before it reads or writes anything but layout_ (for the message).*)
(***************************************************************************)
\* TensorImpl::set_size as the base class has it: the dimension gets the size.
set_size_applied(s, dim, new_size) ==
    [s |-> [s EXCEPT !.sizes = [s.sizes EXCEPT ![dim + 1] = new_size]],
     err |-> "ok"]

strides_custom(s) == [s |-> s, err |-> "UnsupportedOperation"]

sym_strides_custom(s) == [s |-> s, err |-> "UnsupportedOperation"]

set_size(s, dim, new_size) == [s |-> s, err |-> "UnsupportedOperation"]

set_stride(s, dim, new_stride) == [s |-> s, err |-> "UnsupportedOperation"]

set_storage_offset(s, storage_offset) == [s |-> s, err |-> "UnsupportedOperation"]

is_contiguous_custom(s, memory_format) == [s |-> s, err |-> "UnsupportedOperation"]

(***************************************************************************)
(* The arguments the calls are made with.                                  *)
(***************************************************************************)
\* Leading batch dimensions of a size argument.
BatchShapes == {<<>>, <<2>>}

\* Size arguments of resize_: batch dimensions and the two structural ones.
ResizeSizes ==
    {b \o <<r, c>> : b \in BatchShapes, r \in 0..MaxDim, c \in 0..MaxDim}

\* Size arguments of resize_and_clear_: those of resize_, the same with one
\* trailing dense dimension, and sizes of one dimension only.
ClearSizes ==
    ResizeSizes
    \cup {<<r, c, 1>> : r \in 0..MaxDim, c \in 0..MaxDim}
    \cup {<<r>> : r \in 0..MaxDim}

SparseDims == 1..3

\* What a division by zero does.
DivZeroOutcomes == {"trap", "zero"}

\* Member tensors prepared by a caller (shape and contents of the compressed
\* indices, shapes of the plain indices and of the values, the size):
\* a 2x2 CSR structure of two entries, a 2x2 structure of one 2x2 block, a
\* batch of two 1x1 structures, and a triple nobody validated.
Prepared ==
    { [crowShape |-> <<3>>, crow |-> <<0, 1, 2>>, colShape |-> <<2>>,
       valuesShape |-> <<2>>, size |-> <<2, 2>>],
      [crowShape |-> <<2>>, crow |-> <<0, 1>>, colShape |-> <<1>>,
       valuesShape |-> <<1, 2, 2>>, size |-> <<2, 2>>],
      [crowShape |-> <<2, 2>>, crow |-> <<0, 1, 0, 1>>, colShape |-> <<2, 1>>,
       valuesShape |-> <<2, 1>>, size |-> <<2, 1, 1>>],
      [crowShape |-> <<2>>, crow |-> <<1, 0>>, colShape |-> <<1>>,
       valuesShape |-> <<1>>, size |-> <<2, 2>>] }

CrowOf(p, dev, storage) ==
    [dev |-> dev, dtype |-> "Int", shape |-> p.crowShape, st |-> p.crow,
     storage |-> storage]

ColOf(p, dev, storage) ==
    [dev |-> dev, dtype |-> "Int", shape |-> p.colShape, st |-> <<>>,
     storage |-> storage]

ValuesOf(p, dev, dtype, storage) ==
    [dev |-> dev, dtype |-> dtype, shape |-> p.valuesShape, st |-> <<>>,
     storage |-> storage]

\* Another instance, as resize_as_sparse_csr_tensor_ reads it: built from a
\* prepared triple on one device, its values of its own declared type.
SourceOf(p, dev, dtype, layout) ==
    [crow |-> CrowOf(p, dev, "src"), col |-> ColOf(p, dev, "src"),
     values |-> ValuesOf(p, dev, dtype, "src"), layout |-> layout,
     dtype |-> dtype, sizes |-> p.size, symbolic |-> FALSE]

\* A source the caller holds, after the instance became s by an operation
\* that works in place on its member tensors: a member tensor of the source
\* that is one allocation with the instance's is what the instance's now is.
SeenThrough(k, s) ==
    [k EXCEPT !.crow = IF Shares(s.crow, k.crow) THEN s.crow ELSE k.crow,
              !.col = IF Shares(s.col, k.col) THEN s.col ELSE k.col,
              !.values = IF Shares(s.values, k.values) THEN s.values
                         ELSE k.values]

DevsDiffer(d1, d2, d3) == ~(d1 = d2 /\ d2 = d3)

(***************************************************************************)
(* The calls.  Each takes the sets its arguments are drawn from.           *)
(***************************************************************************)
\* A new instance from the three-argument constructor.  A constructor that
\* throws leaves no new instance: the one at hand stays.
EmptyConstruct(Keys, Lays, Types) ==
    \E key_set \in Keys, layout \in Lays, data_type \in Types :
        LET r == ConstructEmpty(key_set, layout, data_type)
        IN  /\ IF r.ok THEN Install(r.s) ELSE Install(Self)
            /\ call' = Call("SparseCsrTensorImpl/3", r.err, 0, FALSE, FALSE, "-")
            /\ UNCHANGED kept

\* A new instance from the six-argument constructor.
FullConstruct(Devs, Lays, Types) ==
    \E p \in Prepared, layout \in Lays, data_type \in Types,
       vdtype \in Types, d1 \in Devs, d2 \in Devs, d3 \in Devs :
        LET r == Construct(data_type, CrowOf(p, d1, "arg"), ColOf(p, d2, "arg"),
                           ValuesOf(p, d3, vdtype, "arg"), layout)
        IN  /\ IF r.ok THEN Install(r.s) ELSE Install(Self)
            /\ call' = Call("SparseCsrTensorImpl/6", r.err, 0, FALSE,
                            DevsDiffer(d1, d2, d3), "-")
            /\ UNCHANGED kept

Resize(Sizes) ==
    \E nnz \in 0..MaxNnz, size \in Sizes :
        LET r == resize_(Self, nnz, size)
        IN  /\ Install(r.s)
            /\ call' = WithSize(Call("resize_", r.err, nnz, FALSE, FALSE, "-"),
                                size, Len(size) - 2)
            /\ kept' = {SeenThrough(k, r.s) : k \in kept}

ResizeAndClear(Sizes) ==
    \E sparse_dim \in SparseDims, size \in Sizes, divzero \in DivZeroOutcomes :
        LET r == resize_and_clear_(Self, sparse_dim, size, divzero)
        IN  /\ divzero = "zero" => DividesByZero(Self, sparse_dim, size)
            /\ Install(r.s)
            /\ call' = WithSize(Call("resize_and_clear_", r.err, 0,
                                     BadClearArgs(sparse_dim, size), FALSE, "-"),
                                size, sparse_dim - 2)
            /\ kept' = {SeenThrough(k, r.s) : k \in kept}

\* The caller holds one source at most: after the call it keeps src for
\* later (keep) or lets it go.
ResizeAsTemplate(Devs, Lays, Types, Keeps) ==
    \E p \in Prepared, dev \in Devs, dtype \in Types, layout \in Lays,
       keep \in Keeps :
        LET src == SourceOf(p, dev, dtype, layout)
            r == resize_as_sparse_csr_tensor_(Self, src)
        IN  /\ Install(r.s)
            /\ call' = Call("resize_as_sparse_csr_tensor_", r.err, 0, FALSE,
                            FALSE, dtype)
            /\ kept' = IF keep THEN {src} ELSE {}

SetMembers(Devs, Types) ==
    \E p \in Prepared, vdtype \in Types, d1 \in Devs, d2 \in Devs, d3 \in Devs :
        LET r == set_member_tensors(Self, CrowOf(p, d1, "arg"),
                                    ColOf(p, d2, "arg"),
                                    ValuesOf(p, d3, vdtype, "arg"), p.size)
        IN  /\ Install(r.s)
            /\ call' = Call("set_member_tensors", r.err, 0, FALSE,
                            DevsDiffer(d1, d2, d3), vdtype)
            /\ UNCHANGED kept

\* The rejecting overrides, called with any argument.
MemoryFormats == {"Contiguous", "ChannelsLast"}

StridesCustom ==
    LET r == strides_custom(Self)
    IN  /\ Install(r.s)
        /\ call' = Call("strides_custom", r.err, 0, FALSE, FALSE, "-")
        /\ UNCHANGED kept

SymStridesCustom ==
    LET r == sym_strides_custom(Self)
    IN  /\ Install(r.s)
        /\ call' = Call("sym_strides_custom", r.err, 0, FALSE, FALSE, "-")
        /\ UNCHANGED kept

SetSize ==
    \E dim \in 0..1, new_size \in 0..MaxDim :
        LET r == set_size(Self, dim, new_size)
        IN  /\ Install(r.s)
            /\ call' = Call("set_size", r.err, 0, FALSE, FALSE, "-")
            /\ UNCHANGED kept

SetStride ==
    \E dim \in 0..1, new_stride \in 0..MaxDim :
        LET r == set_stride(Self, dim, new_stride)
        IN  /\ Install(r.s)
            /\ call' = Call("set_stride", r.err, 0, FALSE, FALSE, "-")
            /\ UNCHANGED kept

SetStorageOffset ==
    \E storage_offset \in 0..MaxDim :
        LET r == set_storage_offset(Self, storage_offset)
        IN  /\ Install(r.s)
            /\ call' = Call("set_storage_offset", r.err, 0, FALSE, FALSE, "-")
            /\ UNCHANGED kept

IsContiguousCustom ==
    \E memory_format \in MemoryFormats :
        LET r == is_contiguous_custom(Self, memory_format)
        IN  /\ Install(r.s)
            /\ call' = Call("is_contiguous_custom", r.err, 0, FALSE, FALSE, "-")
            /\ UNCHANGED kept

RejectingCall ==
    \/ StridesCustom
    \/ SymStridesCustom
    \/ SetSize
    \/ SetStride
    \/ SetStorageOffset
    \/ IsContiguousCustom

\* The state after a successful three-argument construction.
Constructed(Keys, Lays, Types) ==
    \E key_set \in Keys, layout \in Lays, data_type \in Types :
        LET r == ConstructEmpty(key_set, layout, data_type)
        IN  /\ r.ok
            /\ crow_indices_ = r.s.crow
            /\ col_indices_ = r.s.col
            /\ values_ = r.s.values
            /\ layout_ = r.s.layout
            /\ data_type_ = r.s.dtype
            /\ sizes_ = r.s.sizes
            /\ has_symbolic_sizes_strides_ = r.s.symbolic
            /\ call = Call("SparseCsrTensorImpl/3", r.err, 0, FALSE, FALSE, "-")
            /\ kept = {}

(***************************************************************************)
(* Spec: every device, key set and element type; a row-compressed plain    *)
(* layout and a column-compressed block layout; square sizes without batch *)
(* dimensions.                                                             *)
(***************************************************************************)
SquareSizes == {<<n, n>> : n \in 0..MaxDim}

TwoLayouts == {"SparseCsr", "SparseBsc"}

Init == Constructed(KeySets, TwoLayouts, ScalarTypes)

Next ==
    \/ EmptyConstruct(KeySets, TwoLayouts, ScalarTypes)
    \/ FullConstruct(Devices, TwoLayouts, ScalarTypes)
    \/ Resize(SquareSizes)
    \/ ResizeAndClear(SquareSizes \cup {<<MaxDim>>})
    \/ ResizeAsTemplate(Devices, TwoLayouts, ScalarTypes, {FALSE})
    \/ SetMembers(Devices, ScalarTypes)

Spec == Init /\ [][Next]_vars

(***************************************************************************)
(* SpecData: one device and one element type; every layout and every size  *)
(* argument.                                                               *)
(***************************************************************************)
InitData == Constructed({"SparseCsrCPU"}, Layouts, {"Float"})

NextData ==
    \/ EmptyConstruct({"SparseCsrCPU"}, Layouts, {"Float"})
    \/ FullConstruct({"cpu"}, Layouts, {"Float"})
    \/ Resize(ResizeSizes)
    \/ ResizeAndClear(ClearSizes)
    \/ ResizeAsTemplate({"cpu"}, Layouts, {"Float"}, {FALSE})
    \/ SetMembers({"cpu"}, {"Float"})

SpecData == InitData /\ [][NextData]_vars

(***************************************************************************)
(* SpecFrame: one device and one element type, every layout, square sizes; *)
(* the caller keeps the source of resize_as_sparse_csr_tensor_, and calls  *)
(* the rejecting overrides as well.                                        *)
(***************************************************************************)
InitFrame == Constructed({"SparseCsrCPU"}, Layouts, {"Float"})

NextFrame ==
    \/ EmptyConstruct({"SparseCsrCPU"}, Layouts, {"Float"})
    \/ FullConstruct({"cpu"}, Layouts, {"Float"})
    \/ Resize(SquareSizes)
    \/ ResizeAndClear(SquareSizes \cup {<<MaxDim>>})
    \/ ResizeAsTemplate({"cpu"}, Layouts, {"Float"}, {TRUE})
    \/ SetMembers({"cpu"}, {"Float"})
    \/ RejectingCall

SpecFrame == InitFrame /\ [][NextFrame]_vars

(***************************************************************************)
(* Properties.                                                             *)
(***************************************************************************)
\* The last-axis length of the compressed indices and the number of batches.
CrowLen == LastDim(crow_indices_)

CrowBatches == IF CrowLen = 0 THEN 0 ELSE Len(crow_indices_.st) \div CrowLen

\* Entry j (from 1) of batch b (from 0) of the compressed indices.
CrowAt(b, j) == crow_indices_.st[b * CrowLen + j]

\* The last two dimensions of the logical shape.
Rows == sizes_[Len(sizes_) - 1]

Cols == sizes_[Len(sizes_)]

AfterOk(op) == call.op = op /\ call.err = "ok"

\* C1 (for calls whose values have the declared element type): a
\* set_member_tensors call whose three tensors are not all on one device
\* fails with DeviceMismatch and leaves the instance as it was.
C1_DeviceMismatchLeavesInstance ==
    [][(call'.op = "set_member_tensors" /\ call'.devsDiffer
            /\ call'.vdtype = data_type_)
        => (call'.err = "DeviceMismatch" /\ Self' = Self)]_vars

\* C2: a set_member_tensors call whose values are not of the declared element
\* type fails with TypeMismatch and leaves the three member tensors, the
\* sizes (and everything else of the instance) as they were.
C2_TypeMismatchLeavesInstance ==
    [][(call'.op = "set_member_tensors" /\ call'.vdtype # data_type_)
        => (call'.err = "TypeMismatch" /\ Self' = Self)]_vars

\* A set_member_tensors call has failed with TypeMismatch on an instance that
\* holds tensors it was given or resized to.
C2_Witness ==
    /\ call.op = "set_member_tensors"
    /\ call.err = "TypeMismatch"
    /\ crow_indices_.shape # EmptyShape

\* C3: in every reachable state the three member tensors are on one device.
C3_SameDevice ==
    /\ values_.dev = crow_indices_.dev
    /\ values_.dev = col_indices_.dev

\* C4 (resize_as_sparse_csr_tensor_ with any source instance): after the
\* call the element type of values_ is the declared element type.
C4_ValuesOfDeclaredType ==
    AfterOk("resize_as_sparse_csr_tensor_") => values_.dtype = data_type_

\* C5 (resize_ on the plain layouts): after a successful resize_ on a CSR
\* instance the compressed indices are rows + 1 long, on a CSC instance
\* columns + 1.
C5_CompressedLengthAfterResize ==
    (AfterOk("resize_") /\ ~IsBlockLayout(layout_))
        => CrowLen = (IF IsRowCompressed(layout_) THEN Rows ELSE Cols) + 1

\* C6: after resize_(nnz, size) the last compressed index of every batch is
\* min(nnz, rows * cols).
C6_LastEntryIsClampedNnz ==
    AfterOk("resize_")
        => \A b \in 0..(CrowBatches - 1) :
               CrowAt(b, CrowLen) = Min(call.nnz, Rows * Cols)

\* C7 (constructions followed by resize_): after a successful resize_ the
\* compressed indices of every batch start with 0 and never decrease.
C7_SortedFromZeroAfterResize ==
    AfterOk("resize_")
        => \A b \in 0..(CrowBatches - 1) :
               /\ CrowAt(b, 1) = 0
               /\ \A j \in 1..(CrowLen - 1) :
                      /\ CrowAt(b, j) # Uninit
                      /\ CrowAt(b, j) <= CrowAt(b, j + 1)

C9_ClearedAfterResizeAndClear ==
    AfterOk("resize_and_clear_")
        => /\ \A i \in 1..Len(crow_indices_.st) : crow_indices_.st[i] = 0
           /\ Len(crow_indices_.st) = Prod(crow_indices_.shape)
           /\ col_indices_.shape[batch_dim(Self) + 1] = 0
           /\ values_.shape[batch_dim(Self) + 1] = 0

\* A successful resize_and_clear_ of a batched block instance left more than
\* one compressed index per batch.
C9_Witness ==
    /\ AfterOk("resize_and_clear_")
    /\ IsBlockLayout(layout_)
    /\ CrowLen >= 2
    /\ CrowBatches >= 2

\* C10: resize_and_clear_ with sparse_dim < 2 or with a size shorter than
\* sparse_dim fails with InvalidArgument and leaves the member tensors, the
\* sizes and the layout as they were.
C10_BadArgsLeaveInstance ==
    [][(call'.op = "resize_and_clear_" /\ call'.badArgs)
        => (call'.err = "InvalidArgument" /\ Self' = Self)]_vars

\* resize_and_clear_ has rejected its arguments on an instance that holds
\* compressed indices.
C10_Witness ==
    /\ call.op = "resize_and_clear_"
    /\ call.err = "InvalidArgument"
    /\ call.badArgs
    /\ Len(crow_indices_.st) >= 2

\* The operations that have no meaning on a sparse compressed tensor.
RejectingOps ==
    {"strides_custom", "sym_strides_custom", "set_size", "set_stride",
     "set_storage_offset", "is_contiguous_custom"}

\* C11: a call of the strides query, of set_size, set_stride or
\* set_storage_offset, or of the contiguity query fails with
\* UnsupportedOperation and leaves the member tensors, the sizes and the
\* layout (and everything else of the instance) as they were, whatever the
\* layout and the state of the instance.
C11_RejectedAndUnchanged ==
    [][(call'.op \in RejectingOps)
        => (call'.err = "UnsupportedOperation" /\ Self' = Self)]_vars

\* set_size has been rejected on a block instance that holds compressed
\* indices and sizes.
C11_Witness ==
    /\ call.op = "set_size"
    /\ call.err = "UnsupportedOperation"
    /\ IsBlockLayout(layout_)
    /\ Len(crow_indices_.st) >= 2
    /\ sizes_ # DefaultSizes

\* Same shape, element type and device.
SameMeta(t, u) == t.shape = u.shape /\ t.dtype = u.dtype /\ t.dev = u.dev

\* The instance matches the source k and shares no member tensor with it.
MatchesUnshared(k) ==
    /\ layout_ = k.layout
    /\ sizes_ = k.sizes
    /\ SameMeta(crow_indices_, k.crow) /\ ~Shares(crow_indices_, k.crow)
    /\ SameMeta(col_indices_, k.col) /\ ~Shares(col_indices_, k.col)
    /\ SameMeta(values_, k.values) /\ ~Shares(values_, k.values)

\* C12: after resize_as_sparse_csr_tensor_(src) the layout and the sizes of
\* the instance are src's, each member tensor has the shape, element type and
\* device of src's and is no allocation of src's; and no resize_ or
\* resize_and_clear_ of the instance changes a member tensor of a source the
\* caller holds.
C12_TemplateMatchedUnshared ==
    /\ [](AfterOk("resize_as_sparse_csr_tensor_")
            => \A k \in kept : MatchesUnshared(k))
    /\ [][(call'.op \in {"resize_", "resize_and_clear_"}) => kept' = kept]_vars

\* The instance took the shape of a source of three compressed indices, which
\* the caller still holds, and was then shrunk by resize_: its first
\* compressed index is still as empty_like left it.
C12_Witness ==
    /\ AfterOk("resize_")
    /\ \E k \in kept : k.crow.shape = <<3>> /\ layout_ = k.layout
    /\ crow_indices_.storage = "own"
    /\ crow_indices_.shape = <<2>>
    /\ crow_indices_.st[1] = Uninit

\* The batch dimensions of a shape that has k dimensions after them.
BatchOf(shape, k) == SubSeq(shape, 1, Len(shape) - k)

\* C13: a successful resize_(nnz, size) with rows + 1 not below the length
\* the compressed indices had, on an instance that had compressed indices
\* with the batch dimensions of size, leaves every compressed index the
\* instance had as it was, in every batch, and sets every appended one to nnz.
C13_GrowthKeepsPrefix ==
    [][(/\ call'.op = "resize_" /\ call'.err = "ok"
        /\ CrowLen >= 1
        /\ call'.size[Len(call'.size) - 1] + 1 >= CrowLen
        /\ BatchOf(crow_indices_.shape, 1) = BatchOf(call'.size, 2))
       => \A b \in 0..(CrowBatches - 1) :
            LET NewLen == call'.size[Len(call'.size) - 1] + 1
            IN  /\ \A j \in 1..CrowLen :
                       crow_indices_'.st[b * NewLen + j] = CrowAt(b, j)
                /\ \A j \in (CrowLen + 1)..NewLen :
                       crow_indices_'.st[b * NewLen + j] = call'.nnz]_vars

\* C14: after a successful resize_(nnz, size) the plain indices and the
\* values have min(nnz, rows * cols) entries on the axis after the batch
\* dimensions, rows and cols being the last two dimensions of size, and the
\* sizes of the instance are size.
C14_EntriesClamped ==
    AfterOk("resize_")
        => LET size == call.size
               rows == size[Len(size) - 1]
               cols == size[Len(size)]
               nse == IF call.nnz <= rows * cols THEN call.nnz ELSE rows * cols
           IN  /\ col_indices_.shape[call.batch + 1] = nse
               /\ values_.shape[call.batch + 1] = nse
               /\ sizes_ = size

\* A resize_ of a batched instance asked for more entries than a 1 x 2
\* structure has room for.
C14_Witness ==
    /\ AfterOk("resize_")
    /\ call.nnz > Rows * Cols
    /\ Rows * Cols >= 1
    /\ call.batch = 1
    /\ values_.shape = <<2, Rows * Cols>>

\* C15: after a successful resize_and_clear_(sparse_dim, size) the
\* compressed indices have the batch dimensions of size and then groups + 1
\* entries, groups being the rows of size for CSR and BSR and the columns for
\* CSC and BSC, divided for BSR and BSC by the matching edge of the block
\* shape the values had before the call (the two dimensions after their
\* entries axis); and for BSR and BSC the shape of the values ends with that
\* block shape.
C15_ClearedShapes ==
    [][(call'.op = "resize_and_clear_" /\ call'.err = "ok")
       => LET size == call'.size
              bd == call'.batch
              groups == IF layout_ \in {"SparseCsr", "SparseBsr"}
                        THEN size[bd + 1] ELSE size[bd + 2]
              cur == Len(crow_indices_.shape) - 1
              blockShape == SubSeq(values_.shape, cur + 2, cur + 3)
              edge == blockShape[IF layout_ = "SparseBsr" THEN 1 ELSE 2]
              newValues == values_'.shape
          IN  IF layout_ \in {"SparseBsr", "SparseBsc"}
              THEN edge # 0
                    => /\ crow_indices_'.shape
                            = SubSeq(size, 1, bd) \o <<(groups \div edge) + 1>>
                       /\ SubSeq(newValues, Len(newValues) - 1, Len(newValues))
                            = blockShape
              ELSE crow_indices_'.shape = SubSeq(size, 1, bd) \o <<groups + 1>>]_vars

\* A BSR instance of 2 x 2 blocks has been cleared to 1 x 2: no whole block
\* row, one compressed index.
C15_Witness ==
    /\ AfterOk("resize_and_clear_")
    /\ layout_ = "SparseBsr"
    /\ sizes_ = <<1, 2>>
    /\ values_.shape = <<0, 2, 2>>
    /\ crow_indices_.shape = <<1>>

=============================================================================
